---- MODULE Spec2Model ----
(***************************************************************************)
(* MyRunStreak sync: the stk CLI sync command, the SyncStateManager, the   *)
(* TokenRepository, the run/split batch loop of sync_with_splits.py and   *)
(* the sync orchestrator, as state machines.                              *)
(*                                                                         *)
(* Time is one clock, now, in seconds since BaseDate 00:00.  Dates are     *)
(* records [year, month, day] as Python's datetime.date; text is a tuple   *)
(* of one-character strings, so that isoformat and fromisoformat are real  *)
(* conversions.                                                            *)
(***************************************************************************)
EXTENDS Integers, Sequences, FiniteSets, TLC

(***************************************************************************)
(* Bounds of the model                                                     *)
(***************************************************************************)
\* how many days the clock may advance
MaxDays == 1
\* the largest runs_synced count a sync endpoint answer or a caller reports
MaxRuns == 1

(***************************************************************************)
(* datetime.date                                                           *)
(***************************************************************************)
Date(y, m, d) == [year |-> y, month |-> m, day |-> d]

\* the value standing for "no date" (a local that was never assigned)
NoDate == Date(0, 0, 0)

IsLeap(y) == (y % 4 = 0) /\ ((y % 100 # 0) \/ (y % 400 = 0))

DaysInMonth(y, m) ==
    IF m = 2 THEN (IF IsLeap(y) THEN 29 ELSE 28)
    ELSE IF m \in {4, 6, 9, 11} THEN 30 ELSE 31

RECURSIVE DaysBeforeMonth(_, _)
DaysBeforeMonth(y, m) ==
    IF m <= 1 THEN 0 ELSE DaysBeforeMonth(y, m - 1) + DaysInMonth(y, m - 1)

DaysBeforeYear(y) ==
    (y - 1) * 365 + ((y - 1) \div 4) - ((y - 1) \div 100) + ((y - 1) \div 400)

\* date.toordinal(): 1 is 0001-01-01
ToOrdinal(dt) ==
    DaysBeforeYear(dt.year) + DaysBeforeMonth(dt.year, dt.month) + dt.day

\* the year holding ordinal n, searched downward from a year at or after it
RECURSIVE YearOfOrdinal(_, _)
YearOfOrdinal(n, y) ==
    IF DaysBeforeYear(y) < n THEN y ELSE YearOfOrdinal(n, y - 1)

RECURSIVE MonthOfOrdinal(_, _, _)
MonthOfOrdinal(rest, y, m) ==
    IF DaysBeforeMonth(y, m) < rest THEN m ELSE MonthOfOrdinal(rest, y, m - 1)

\* date.fromordinal()
FromOrdinal(n) ==
    LET y == YearOfOrdinal(n, (n \div 365) + 1)
        rest == n - DaysBeforeYear(y)
        m == MonthOfOrdinal(rest, y, 12)
    IN  Date(y, m, rest - DaysBeforeMonth(y, m))

\* date - timedelta(days=k)
MinusDays(dt, k) == FromOrdinal(ToOrdinal(dt) - k)

\* date comparison: lexicographic on (year, month, day)
DateLE(a, b) ==
    \/ a.year < b.year
    \/ a.year = b.year /\ a.month < b.month
    \/ a.year = b.year /\ a.month = b.month /\ a.day <= b.day

\* date(y, m, d) raises ValueError outside these ranges
ValidYMD(y, m, d) ==
    /\ y >= 1 /\ y <= 9999
    /\ m >= 1 /\ m <= 12
    /\ d >= 1 /\ d <= DaysInMonth(y, m)

(***************************************************************************)
(* Text: isoformat / fromisoformat                                         *)
(***************************************************************************)
Digits == <<"0", "1", "2", "3", "4", "5", "6", "7", "8", "9">>

IsDigit(c) == \E i \in 1..10 : Digits[i] = c

DigitVal(c) == (CHOOSE i \in 1..10 : Digits[i] = c) - 1

RECURSIVE Pow10(_)
Pow10(k) == IF k = 0 THEN 1 ELSE 10 * Pow10(k - 1)

\* "%0wd" % n
Pad(n, w) == [i \in 1..w |-> Digits[((n \div Pow10(w - i)) % 10) + 1]]

\* date.isoformat(): "YYYY-MM-DD"
IsoFormat(dt) ==
    Pad(dt.year, 4) \o <<"-">> \o Pad(dt.month, 2) \o <<"-">> \o Pad(dt.day, 2)

RECURSIVE ToInt(_)
ToInt(s) ==
    IF s = <<>> THEN 0
    ELSE 10 * ToInt(SubSeq(s, 1, Len(s) - 1)) + DigitVal(s[Len(s)])

AllDigits(s) == \A i \in 1..Len(s) : IsDigit(s[i])

\* date.fromisoformat(): [ok, value]; ok = FALSE is ValueError.  The forms
\* read are YYYY-MM-DD and YYYYMMDD; every other text is rejected (the
\* week-date forms of Python 3.11 are not among the texts of this model).
FromIsoFormat(s) ==
    LET fields ==
            IF Len(s) = 10 /\ s[5] = "-" /\ s[8] = "-"
            THEN <<SubSeq(s, 1, 4), SubSeq(s, 6, 7), SubSeq(s, 9, 10)>>
            ELSE IF Len(s) = 8
            THEN <<SubSeq(s, 1, 4), SubSeq(s, 5, 6), SubSeq(s, 7, 8)>>
            ELSE <<>>
    IN  IF fields = <<>> THEN [ok |-> FALSE, value |-> NoDate]
        ELSE IF ~(AllDigits(fields[1]) /\ AllDigits(fields[2]) /\ AllDigits(fields[3]))
        THEN [ok |-> FALSE, value |-> NoDate]
        ELSE LET y == ToInt(fields[1])
                 m == ToInt(fields[2])
                 d == ToInt(fields[3])
             IN  IF ValidYMD(y, m, d)
                 THEN [ok |-> TRUE, value |-> Date(y, m, d)]
                 ELSE [ok |-> FALSE, value |-> NoDate]

(***************************************************************************)
(* State                                                                   *)
(***************************************************************************)
VARIABLES
    now,          \* the clock, seconds since BaseDate 00:00 UTC
    state_file,   \* ~/.config/stk/sync_state.json (SYNC_STATE_FILE)
    cli,          \* one invocation of `stk sync`: its position and locals
    posted,       \* the body of the last request httpx.post sent for the CLI
    secret,       \* the Secrets Manager secret myrunstreak/sync-state
    ssm_ret,      \* the last SyncStateManager call: arguments and outcome
    program,      \* which process runs: the stk CLI, or a SyncStateManager caller
    user_sources, \* the user_sources table, one row per (user_id, source_type)
    tok_ret,      \* the last TokenRepository call: arguments and outcome
    runs,         \* the runs table
    splits,       \* the splits table
    batch,        \* scripts/sync_with_splits.py main: its position and locals
    orch,         \* one invocation of the sync orchestrator
    gva           \* a get_valid_access_token call in progress: position and locals

\* the variables each part leaves alone
notOrch == <<program, state_file, cli, posted, ssm_ret, tok_ret, splits, batch, gva>>
notBatch == <<now, program, state_file, cli, posted, secret, ssm_ret, user_sources, tok_ret, orch, gva>>
notTokens == <<program, state_file, cli, posted, secret, ssm_ret, runs, splits, batch, orch, gva>>
notCli == <<program, secret, ssm_ret, user_sources, tok_ret, runs, splits, batch, orch, gva>>
notGva == <<now, program, state_file, cli, posted, secret, ssm_ret, tok_ret, runs, splits, batch, orch>>
notState == <<program, state_file, cli, posted, user_sources, tok_ret, runs, splits, batch, orch, gva>>

\* the day the model starts on: today - 30 days crosses a year boundary
BaseDate == Date(2024, 1, 30)

SecondsPerDay == 24 * 60 * 60

\* date.today()
Today == FromOrdinal(ToOrdinal(BaseDate) + (now \div SecondsPerDay))

\* an optional text argument: None, or a str
NoText == [given |-> FALSE, text |-> <<>>]
Text(s) == [given |-> TRUE, text |-> s]

\* an optional int argument: None, or an int
NoInt == [given |-> FALSE, value |-> 0]
Int_(n) == [given |-> TRUE, value |-> n]

\* Python truthiness of `str | None` and of `int | None`
TruthyText(o) == o.given /\ o.text # <<>>
TruthyInt(o) == o.given /\ o.value # 0

\* a result of a call that may raise: ok = FALSE is the exception
Ok(v) == [ok |-> TRUE, value |-> v]
Raised == [ok |-> FALSE, value |-> NoDate]

(***************************************************************************)
(* cli/commands/sync.py: the local sync state file                         *)
(***************************************************************************)
NoFile ==
    [exists |-> FALSE, last_sync_date |-> <<>>, last_sync_timestamp |-> 0,
     runs_synced |-> 0]

\* the file as open(SYNC_STATE_FILE, "w") leaves it before json.dump has
\* written: it exists and holds nothing that json.load can read
TruncatedFile ==
    [exists |-> TRUE, last_sync_date |-> <<>>, last_sync_timestamp |-> 0,
     runs_synced |-> 0]

\* get_last_sync_date(): the stored date, or today - 30 days without a file;
\* a stored text that is no date raises ValueError
get_last_sync_date(file, today) ==
    IF ~file.exists THEN Ok(MinusDays(today, 30))
    ELSE FromIsoFormat(file.last_sync_date)

\* update_sync_state(sync_date, runs_synced): the file rewritten whole
update_sync_state(sync_date, runs_synced, clock) ==
    [exists |-> TRUE, last_sync_date |-> IsoFormat(sync_date),
     last_sync_timestamp |-> clock, runs_synced |-> runs_synced]

(***************************************************************************)
(* cli/commands/sync.py: sync_runs, the date range                         *)
(***************************************************************************)
\* SmashRun launch date, the since of a full sync
SmashRunLaunch == Date(2010, 1, 1)

Resolved(s, u, read) ==
    [outcome |-> "ok", since_date |-> s, until_date |-> u, read_state |-> read]
\* typer.Exit(1) after "Invalid date format"
InvalidDate(read) ==
    [outcome |-> "invalid_date", since_date |-> NoDate, until_date |-> NoDate,
     read_state |-> read]
\* an exception nothing catches: the interpreter ends with a traceback
Uncaught(read) ==
    [outcome |-> "uncaught", since_date |-> NoDate, until_date |-> NoDate,
     read_state |-> read]

\* the if/elif chain with full tested before year
DateRangeFullFirst(since, until, year, full, today, file) ==
    IF full
    THEN Resolved(SmashRunLaunch, today, FALSE)
    ELSE IF TruthyInt(year)
    THEN Resolved(Date(year.value, 1, 1), Date(year.value, 12, 31), FALSE)
    ELSE IF TruthyText(since) \/ TruthyText(until)
    THEN LET s == IF TruthyText(since) THEN FromIsoFormat(since.text)
                  ELSE get_last_sync_date(file, today)
             u == IF TruthyText(until) THEN FromIsoFormat(until.text) ELSE Ok(today)
         IN  IF s.ok /\ u.ok THEN Resolved(s.value, u.value, ~TruthyText(since))
             ELSE InvalidDate(~TruthyText(since))
    ELSE LET s == get_last_sync_date(file, today)
         IN  IF ~s.ok THEN Uncaught(TRUE) ELSE Resolved(s.value, today, TRUE)

\* the if/elif chain of sync_runs: year, full, since/until, default
DateRange(since, until, year, full, today, file) ==
    IF TruthyInt(year)
    THEN IF ValidYMD(year.value, 1, 1)
         THEN Resolved(Date(year.value, 1, 1), Date(year.value, 12, 31), FALSE)
         ELSE Uncaught(FALSE)
    ELSE IF full
    THEN Resolved(SmashRunLaunch, today, FALSE)
    ELSE IF TruthyText(since) \/ TruthyText(until)
    THEN LET s == IF TruthyText(since) THEN FromIsoFormat(since.text)
                  ELSE get_last_sync_date(file, today)
             read == ~TruthyText(since)
         IN  IF ~s.ok
             THEN (IF TruthyText(since) THEN InvalidDate(read) ELSE Uncaught(read))
             ELSE LET u == IF TruthyText(until) THEN FromIsoFormat(until.text)
                           ELSE Ok(today)
                  IN  IF ~u.ok THEN InvalidDate(read)
                      ELSE Resolved(s.value, u.value, read)
    ELSE LET s == get_last_sync_date(file, today)
         IN  IF ~s.ok THEN Uncaught(TRUE) ELSE Resolved(s.value, today, TRUE)

\* the request body: {"full": true}, or {"since": ..., "until": ...}
NoRequest == [sent |-> FALSE, full |-> FALSE, since |-> <<>>, until |-> <<>>]

RequestData(full, since_date, until_date) ==
    IF full
    THEN [sent |-> FALSE, full |-> TRUE, since |-> <<>>, until |-> <<>>]
    ELSE [sent |-> FALSE, full |-> FALSE, since |-> IsoFormat(since_date),
          until |-> IsoFormat(until_date)]

(***************************************************************************)
(* cli/commands/sync.py: sync_runs, one step per phase                     *)
(***************************************************************************)
\* texts a user may pass as --since / --until
GoodSince == IsoFormat(Date(2024, 1, 10))
GoodUntil == IsoFormat(Date(2024, 1, 20))
\* month 13: the form of a date, and no date
BadText == <<"2", "0", "2", "4", "-", "1", "3", "-", "0", "1">>

SinceArgs == {NoText, Text(<<>>), Text(GoodSince), Text(BadText)}
UntilArgs == {NoText, Text(GoodUntil), Text(BadText)}
YearArgs == {NoInt, Int_(2015), Int_(2030)}

\* what the sync endpoint answered: a JSON object with optional keys
NoResult == [has_runs_synced |-> FALSE, runs_synced |-> 0,
             has_until |-> FALSE, until |-> <<>>]

IdleCli ==
    [pc |-> "IDLE", since |-> NoText, until |-> NoText, year |-> NoInt,
     full |-> FALSE, since_date |-> NoDate, until_date |-> NoDate,
     request_data |-> NoRequest, result |-> NoResult, exit_code |-> 0,
     error |-> "", read_state |-> FALSE, state_file0 |-> NoFile]

\* the command is started with its options
CliInvoke(since, until, year, full) ==
    /\ program = "stk"
    /\ cli.pc = "IDLE"
    /\ cli' = [IdleCli EXCEPT !.pc = "RESOLVING_WINDOW", !.since = since,
                              !.until = until, !.year = year, !.full = full,
                              !.state_file0 = state_file]
    /\ posted' = NoRequest
    /\ UNCHANGED <<now, state_file, notCli>>

\* "Determine date range" and "Build request body"
CliResolveWindow ==
    /\ cli.pc = "RESOLVING_WINDOW"
    /\ LET r == DateRange(cli.since, cli.until, cli.year, cli.full, Today, state_file)
       IN  IF r.outcome = "ok"
           THEN cli' = [cli EXCEPT !.pc = "REQUESTING",
                                   !.since_date = r.since_date,
                                   !.until_date = r.until_date,
                                   !.read_state = r.read_state,
                                   !.request_data =
                                       RequestData(cli.full, r.since_date, r.until_date)]
           ELSE cli' = [cli EXCEPT !.pc = "ABORTED", !.exit_code = 1,
                                   !.error = r.outcome,
                                   !.read_state = r.read_state]
    /\ UNCHANGED <<now, state_file, posted, notCli>>

\* how post_request can end without a result
PostFailures == {"no_user_id", "timeout", "http_status", "request_error", "bad_json"}

\* what the endpoint reports as the until of the range it synced
ServedUntil(request_data, today) ==
    IF request_data.full THEN IsoFormat(today) ELSE request_data.until

\* a failure of the request reported and the command ended normally
CliPostFailsExitZero(failure) ==
    /\ cli.pc = "REQUESTING"
    /\ cli' = [cli EXCEPT !.pc = "ABORTED", !.exit_code = 0, !.error = failure]
    /\ posted' = IF failure = "no_user_id" THEN posted
                 ELSE [cli.request_data EXCEPT !.sent = TRUE]
    /\ UNCHANGED <<now, state_file, notCli>>

\* post_request("sync-user", data=request_data, timeout=120.0) fails: sys.exit(1),
\* or an exception that sync_runs turns into typer.Exit(1)
CliPostFails(failure) ==
    /\ cli.pc = "REQUESTING"
    /\ cli' = [cli EXCEPT !.pc = "ABORTED", !.exit_code = 1, !.error = failure]
    /\ posted' = IF failure = "no_user_id" THEN posted
                 ELSE [cli.request_data EXCEPT !.sent = TRUE]
    /\ UNCHANGED <<now, state_file, notCli>>

\* the "until" key of an answer: absent, the served range's until, or no date
UntilAnswers == {"absent", "served", "malformed"}

\* post_request returns the endpoint's JSON answer
CliPostReturns(has_runs_synced, runs_synced, until_answer) ==
    /\ cli.pc = "REQUESTING"
    /\ ~has_runs_synced => runs_synced = 0
    /\ cli' = [cli EXCEPT !.pc = "RECORDING", !.result =
                  [has_runs_synced |-> has_runs_synced,
                   runs_synced |-> runs_synced,
                   has_until |-> until_answer # "absent",
                   until |-> IF until_answer = "served"
                             THEN ServedUntil(cli.request_data, Today)
                             ELSE IF until_answer = "malformed" THEN BadText
                             ELSE <<>>]]
    /\ posted' = [cli.request_data EXCEPT !.sent = TRUE]
    /\ UNCHANGED <<now, state_file, notCli>>

\* the process is killed from outside (the time budget of the enclosing
\* runner).  landed says whether the kill fell inside the operation of the
\* phase: after the request went out, or between open(..., "w") and the end
\* of the write of update_sync_state
CliKill(landed) ==
    /\ cli.pc \in {"RESOLVING_WINDOW", "REQUESTING", "RECORDING"}
    /\ cli' = [cli EXCEPT !.pc = "KILLED", !.exit_code = 137, !.error = "killed"]
    /\ posted' = IF cli.pc = "REQUESTING" /\ landed
                 THEN [cli.request_data EXCEPT !.sent = TRUE] ELSE posted
    /\ LET runs_synced == IF cli.result.has_runs_synced
                          THEN cli.result.runs_synced ELSE 0
           sync_until == IF cli.result.has_until THEN cli.result.until
                         ELSE IsoFormat(cli.until_date)
       IN  state_file' = IF /\ cli.pc = "RECORDING" /\ landed
                            /\ runs_synced > 0 /\ FromIsoFormat(sync_until).ok
                         THEN TruncatedFile ELSE state_file
    /\ UNCHANGED <<now, notCli>>

\* the state file written with today's date in place of the until of the sync
CliRecordToday ==
    /\ cli.pc = "RECORDING"
    /\ LET runs_synced == IF cli.result.has_runs_synced
                          THEN cli.result.runs_synced ELSE 0
       IN  /\ state_file' = IF runs_synced > 0
                             THEN update_sync_state(Today, runs_synced, now)
                             ELSE state_file
           /\ cli' = [cli EXCEPT !.pc = "DONE", !.exit_code = 0]
    /\ UNCHANGED <<now, posted, notCli>>

\* the state file written whatever the number of runs
CliRecordAlways ==
    /\ cli.pc = "RECORDING"
    /\ LET runs_synced == IF cli.result.has_runs_synced
                          THEN cli.result.runs_synced ELSE 0
           sync_until == IF cli.result.has_until THEN cli.result.until
                         ELSE IsoFormat(cli.until_date)
           d == FromIsoFormat(sync_until)
       IN  IF d.ok
           THEN /\ state_file' = update_sync_state(d.value, runs_synced, now)
                /\ cli' = [cli EXCEPT !.pc = "DONE", !.exit_code = 0]
           ELSE /\ state_file' = state_file
                /\ cli' = [cli EXCEPT !.pc = "ABORTED", !.exit_code = 1,
                                      !.error = "exception"]
    /\ UNCHANGED <<now, posted, notCli>>

\* "Update local sync state": only when runs were synced
CliRecord ==
    /\ cli.pc = "RECORDING"
    /\ LET runs_synced == IF cli.result.has_runs_synced
                          THEN cli.result.runs_synced ELSE 0
           sync_until == IF cli.result.has_until THEN cli.result.until
                         ELSE IsoFormat(cli.until_date)
           d == FromIsoFormat(sync_until)
       IN  IF runs_synced > 0
           THEN IF d.ok
                THEN /\ state_file' = update_sync_state(d.value, runs_synced, now)
                     /\ cli' = [cli EXCEPT !.pc = "DONE", !.exit_code = 0]
                ELSE /\ state_file' = state_file
                     /\ cli' = [cli EXCEPT !.pc = "ABORTED", !.exit_code = 1,
                                           !.error = "exception"]
           ELSE /\ state_file' = state_file
                /\ cli' = [cli EXCEPT !.pc = "DONE", !.exit_code = 0]
    /\ UNCHANGED <<now, posted, notCli>>

\* the process has ended; the next invocation starts afresh
CliExit ==
    /\ cli.pc \in {"DONE", "ABORTED", "KILLED"}
    /\ cli' = IdleCli
    /\ UNCHANGED <<now, state_file, posted, notCli>>

\* a day passes between invocations
TickDay ==
    /\ cli.pc = "IDLE"
    /\ now + SecondsPerDay <= MaxDays * SecondsPerDay
    /\ now' = now + SecondsPerDay
    /\ UNCHANGED <<state_file, cli, posted, notCli>>

(***************************************************************************)
(* shared/smashrun/sync_state.py: SyncStateManager                         *)
(***************************************************************************)
NoSecret ==
    [exists |-> FALSE, last_sync_date |-> <<>>, last_sync_timestamp |-> 0,
     runs_synced |-> 0]

\* how a Secrets Manager call can fail apart from ResourceNotFoundException
StoreFaults == {"none", "update_ClientError", "create_ClientError", "get_ClientError"}

\* SyncStateManager.get_last_sync_date(): the stored date; today - 30 days when
\* the secret is missing, holds no date, or the call fails with ClientError
SyncStateManager_get_last_sync_date(sec, today, fault) ==
    IF fault = "get_ClientError" THEN Ok(MinusDays(today, 30))
    ELSE IF ~sec.exists THEN Ok(MinusDays(today, 30))
    ELSE IF sec.last_sync_date = <<>> THEN Ok(MinusDays(today, 30))
    ELSE FromIsoFormat(sec.last_sync_date)

\* SyncStateManager._create_sync_state(state_data)
create_sync_state(sec, state_data, fault) ==
    IF fault = "create_ClientError"
    THEN [secret |-> sec, raised |-> TRUE]
    ELSE [secret |-> state_data, raised |-> FALSE]

\* update_last_sync_date that does not create a missing secret
update_last_sync_date_no_create(sec, sync_date, runs_synced, clock, fault) ==
    LET state_data ==
            [exists |-> TRUE, last_sync_date |-> IsoFormat(sync_date),
             last_sync_timestamp |-> clock, runs_synced |-> runs_synced]
    IN  IF fault = "update_ClientError"
        THEN [secret |-> sec, raised |-> TRUE]
        ELSE IF ~sec.exists
        THEN [secret |-> sec, raised |-> FALSE]
        ELSE [secret |-> state_data, raised |-> FALSE]

\* update_last_sync_date that logs a ClientError of update_secret and returns
update_last_sync_date_swallows(sec, sync_date, runs_synced, clock, fault) ==
    LET state_data ==
            [exists |-> TRUE, last_sync_date |-> IsoFormat(sync_date),
             last_sync_timestamp |-> clock, runs_synced |-> runs_synced]
    IN  IF fault = "update_ClientError"
        THEN [secret |-> sec, raised |-> FALSE]
        ELSE IF ~sec.exists
        THEN create_sync_state(sec, state_data, fault)
        ELSE [secret |-> state_data, raised |-> FALSE]

\* SyncStateManager.update_last_sync_date(sync_date, runs_synced)
update_last_sync_date(sec, sync_date, runs_synced, clock, fault) ==
    LET state_data ==
            [exists |-> TRUE, last_sync_date |-> IsoFormat(sync_date),
             last_sync_timestamp |-> clock, runs_synced |-> runs_synced]
    IN  IF fault = "update_ClientError"
        THEN [secret |-> sec, raised |-> TRUE]
        ELSE IF ~sec.exists
        THEN create_sync_state(sec, state_data, fault)
        ELSE [secret |-> state_data, raised |-> FALSE]

\* record_sync_attempt recording the attempt whatever its success
record_sync_attempt_always(sec, success, runs_synced, today, clock, fault) ==
    update_last_sync_date(sec, today, runs_synced, clock, fault)

\* record_sync_attempt moving the date on a failure too: the failed attempt
\* is stored with no runs
record_sync_attempt_stores_failure(sec, success, runs_synced, today, clock, fault) ==
    update_last_sync_date(sec, today, IF success THEN runs_synced ELSE 0, clock, fault)

\* record_sync_attempt calling update_last_sync_date without the count
record_sync_attempt_drops_count(sec, success, runs_synced, today, clock, fault) ==
    IF success
    THEN update_last_sync_date(sec, today, 0, clock, fault)
    ELSE [secret |-> sec, raised |-> FALSE]

\* SyncStateManager.record_sync_attempt(success, runs_synced, error_message)
record_sync_attempt(sec, success, runs_synced, today, clock, fault) ==
    IF success
    THEN update_last_sync_date(sec, today, runs_synced, clock, fault)
    ELSE [secret |-> sec, raised |-> FALSE]

NoCall ==
    [op |-> "", success |-> FALSE, runs_synced |-> 0, sync_date |-> NoDate,
     raised |-> FALSE, value |-> NoDate, secret0 |-> NoSecret, today |-> NoDate,
     clock |-> 0]

\* dates a caller passes to update_last_sync_date
SyncDates == {Today, Date(2015, 12, 31)}

\* secret values that update_last_sync_date did not write: a record without
\* last_sync_date, and a record whose last_sync_date is no date
ForeignDates == {<<>>, BadText}

\* the secret is put by another writer (the console, the infrastructure code)
SsmSecretPutElsewhere(text) ==
    /\ program = "lambda"
    /\ secret' = [exists |-> TRUE, last_sync_date |-> text,
                  last_sync_timestamp |-> now, runs_synced |-> 0]
    /\ secret' # secret
    /\ ssm_ret' = NoCall
    /\ UNCHANGED <<now, notState>>

SsmGetLastSyncDate(fault) ==
    /\ program = "lambda"
    /\ LET r == SyncStateManager_get_last_sync_date(secret, Today, fault)
       IN  ssm_ret' = [NoCall EXCEPT !.op = "get_last_sync_date",
                                     !.raised = ~r.ok, !.value = r.value,
                                     !.secret0 = secret, !.today = Today,
                                        !.clock = now]
    /\ UNCHANGED <<now, secret, notState>>

SsmUpdateLastSyncDate(sync_date, runs_synced, fault) ==
    /\ program = "lambda"
    /\ LET r == update_last_sync_date(secret, sync_date, runs_synced, now, fault)
       IN  /\ secret' = r.secret
           /\ ssm_ret' = [NoCall EXCEPT !.op = "update_last_sync_date",
                                        !.runs_synced = runs_synced,
                                        !.sync_date = sync_date,
                                        !.raised = r.raised,
                                        !.secret0 = secret, !.today = Today,
                                        !.clock = now]
    /\ UNCHANGED <<now, notState>>

SsmRecordSyncAttempt(success, runs_synced, fault) ==
    /\ program = "lambda"
    /\ LET r == record_sync_attempt(secret, success, runs_synced, Today, now, fault)
       IN  /\ secret' = r.secret
           /\ ssm_ret' = [NoCall EXCEPT !.op = "record_sync_attempt",
                                        !.success = success,
                                        !.runs_synced = runs_synced,
                                        !.raised = r.raised,
                                        !.secret0 = secret, !.today = Today,
                                        !.clock = now]
    /\ UNCHANGED <<now, notState>>

(***************************************************************************)
(* shared/supabase_ops/token_repository.py: TokenRepository                *)
(***************************************************************************)
Users == {"u1", "u2"}
SourceTypes == {"smashrun", "strava"}
SourceKeys == Users \X SourceTypes

\* SQL NULL / Python None in a text column and in a timestamp column
Null == "<null>"
NullTime == -1

\* a place of the table that holds no row
NoRow ==
    [exists |-> FALSE, is_active |-> FALSE, access_token |-> Null,
     refresh_token |-> Null, token_expires_at |-> NullTime,
     updated_at |-> NullTime]

\* a source row as created, before any token is stored
NewRow(active) == [NoRow EXCEPT !.exists = TRUE, !.is_active = active]

\* Python truthiness of a text column value
Falsy(v) == v = Null \/ v = ""

NoTokens ==
    [found |-> FALSE, access_token |-> Null, refresh_token |-> Null,
     token_expires_at |-> NullTime]

\* get_user_tokens without the is_active filter
get_user_tokens_any_row(table, user_id, source_type) ==
    LET source == table[<<user_id, source_type>>]
    IN  IF ~source.exists THEN NoTokens
        ELSE IF Falsy(source.access_token) THEN NoTokens
        ELSE [found |-> TRUE, access_token |-> source.access_token,
              refresh_token |-> source.refresh_token,
              token_expires_at |-> source.token_expires_at]

\* TokenRepository.get_user_tokens(user_id, source_type)
get_user_tokens(table, user_id, source_type) ==
    LET source == table[<<user_id, source_type>>]
    IN  IF ~(source.exists /\ source.is_active) THEN NoTokens
        ELSE IF Falsy(source.access_token) THEN NoTokens
        ELSE [found |-> TRUE, access_token |-> source.access_token,
              refresh_token |-> source.refresh_token,
              token_expires_at |-> source.token_expires_at]

\* save_user_tokens without the is_active filter
save_user_tokens_any_row(table, user_id, access_token, refresh_token, expires_in, source_type, clock) ==
    LET token_expires_at ==
            IF TruthyInt(expires_in) THEN clock + expires_in.value ELSE NullTime
    IN  [k \in SourceKeys |->
            IF k = <<user_id, source_type>> /\ table[k].exists
            THEN [table[k] EXCEPT !.access_token = access_token,
                                  !.refresh_token = refresh_token,
                                  !.token_expires_at = token_expires_at,
                                  !.updated_at = clock]
            ELSE table[k]]

\* save_user_tokens without the user_id filter
save_user_tokens_any_user(table, user_id, access_token, refresh_token, expires_in, source_type, clock) ==
    LET token_expires_at ==
            IF TruthyInt(expires_in) THEN clock + expires_in.value ELSE NullTime
    IN  [k \in SourceKeys |->
            IF k[2] = source_type /\ table[k].exists /\ table[k].is_active
            THEN [table[k] EXCEPT !.access_token = access_token,
                                  !.refresh_token = refresh_token,
                                  !.token_expires_at = token_expires_at,
                                  !.updated_at = clock]
            ELSE table[k]]

\* save_user_tokens keeping a refresh_token that is already stored
save_user_tokens_keeps_refresh(table, user_id, access_token, refresh_token, expires_in, source_type, clock) ==
    LET token_expires_at ==
            IF TruthyInt(expires_in) THEN clock + expires_in.value ELSE NullTime
    IN  [k \in SourceKeys |->
            IF k = <<user_id, source_type>> /\ table[k].exists /\ table[k].is_active
            THEN [table[k] EXCEPT !.access_token = access_token,
                                  !.refresh_token =
                                      IF Falsy(@) THEN refresh_token ELSE @,
                                  !.token_expires_at = token_expires_at,
                                  !.updated_at = clock]
            ELSE table[k]]

\* TokenRepository.save_user_tokens(user_id, access_token, refresh_token,
\* expires_in, source_type): an UPDATE of the active rows of the user's source
save_user_tokens(table, user_id, access_token, refresh_token, expires_in, source_type, clock) ==
    LET token_expires_at ==
            IF TruthyInt(expires_in) THEN clock + expires_in.value ELSE NullTime
    IN  [k \in SourceKeys |->
            IF k = <<user_id, source_type>> /\ table[k].exists /\ table[k].is_active
            THEN [table[k] EXCEPT !.access_token = access_token,
                                  !.refresh_token = refresh_token,
                                  !.token_expires_at = token_expires_at,
                                  !.updated_at = clock]
            ELSE table[k]]

\* timedelta(minutes=5)
buffer == 5 * 60

\* is_token_expired with the buffer compared by > instead of >=
is_token_expired_strict(table, user_id, source_type, clock) ==
    LET tokens == get_user_tokens(table, user_id, source_type)
    IN  IF ~tokens.found THEN TRUE
        ELSE IF tokens.token_expires_at = NullTime THEN FALSE
        ELSE clock + buffer > tokens.token_expires_at

\* TokenRepository.is_token_expired(user_id, source_type)
is_token_expired(table, user_id, source_type, clock) ==
    LET tokens == get_user_tokens(table, user_id, source_type)
    IN  IF ~tokens.found THEN TRUE
        ELSE IF tokens.token_expires_at = NullTime THEN FALSE
        ELSE clock + buffer >= tokens.token_expires_at

\* get_valid_access_token without the expiry test
get_valid_access_token_unchecked(table, user_id, source_type, clock) ==
    LET tokens == get_user_tokens(table, user_id, source_type)
    IN  IF ~tokens.found THEN Null ELSE tokens.access_token

\* TokenRepository.get_valid_access_token(user_id, source_type): Null is None
get_valid_access_token(table, user_id, source_type, clock) ==
    LET tokens == get_user_tokens(table, user_id, source_type)
    IN  IF ~tokens.found THEN Null
        ELSE IF is_token_expired(table, user_id, source_type, clock) THEN Null
        ELSE tokens.access_token

\* TokenRepository.get_source_id_for_user(user_id, source_type): the id of
\* the active row, here its key; found = FALSE is None
get_source_id_for_user(table, user_id, source_type) ==
    LET source == table[<<user_id, source_type>>]
    IN  [found |-> source.exists /\ source.is_active]

\* delete_tokens deactivating the source as well
delete_tokens_deactivates(table, user_id, source_type, clock) ==
    [k \in SourceKeys |->
        IF k = <<user_id, source_type>> /\ table[k].exists
        THEN [table[k] EXCEPT !.access_token = Null,
                              !.refresh_token = Null,
                              !.token_expires_at = NullTime,
                              !.is_active = FALSE,
                              !.updated_at = clock]
        ELSE table[k]]

\* TokenRepository.delete_tokens(user_id, source_type): an UPDATE of the rows
\* of the user's source, whatever their is_active
delete_tokens(table, user_id, source_type, clock) ==
    [k \in SourceKeys |->
        IF k = <<user_id, source_type>> /\ table[k].exists
        THEN [table[k] EXCEPT !.access_token = Null,
                              !.refresh_token = Null,
                              !.token_expires_at = NullTime,
                              !.updated_at = clock]
        ELSE table[k]]

(***************************************************************************)
(* Calls of the TokenRepository                                            *)
(***************************************************************************)
\* how far the clock of the token checks may advance, in minutes
MaxMinutes == 1

\* token pairs a caller stores
TokenPairs == {<<"a1", "r1">>, <<"a3", "r3">>, <<"", "r2">>}
\* expires_in values a caller passes, in seconds; NoInt is None
ExpiresIn == {NoInt, Int_(0), Int_(4 * 60), Int_(5 * 60), Int_(10 * 60)}

\* tables a deployment starts with: sources without tokens, and a source
\* that was deactivated after its tokens had been stored
EmptyTable == [k \in SourceKeys |-> NoRow]
DeactivatedRow ==
    [NewRow(FALSE) EXCEPT !.access_token = "a0", !.refresh_token = "r0",
                          !.updated_at = 0]
InitialTables ==
    { [EmptyTable EXCEPT ![<<"u1", "smashrun">>] = NewRow(TRUE),
                         ![<<"u2", "smashrun">>] = NewRow(TRUE)],
      [EmptyTable EXCEPT ![<<"u1", "smashrun">>] = DeactivatedRow,
                         ![<<"u1", "strava">>] = NewRow(TRUE)] }

\* the last call: its arguments, its result, and table0, the table it found
NoTokenCall ==
    [op |-> "", user_id |-> "", source_type |-> "", expires_in |-> NoInt,
     found |-> FALSE, access_token |-> Null, refresh_token |-> Null,
     token_expires_at |-> NullTime, expired |-> FALSE, clock |-> 0,
     table0 |-> EmptyTable]

\* the (user_id, source_type) pairs the calls are made for
CallKeys == {<<"u1", "smashrun">>, <<"u1", "strava">>}

TokSave(user_id, pair, expires_in, source_type) ==
    /\ user_sources' = save_user_tokens(user_sources, user_id, pair[1], pair[2],
                                         expires_in, source_type, now)
    /\ tok_ret' = [NoTokenCall EXCEPT !.op = "save_user_tokens",
                                      !.user_id = user_id,
                                      !.source_type = source_type,
                                      !.expires_in = expires_in,
                                      !.access_token = pair[1],
                                      !.refresh_token = pair[2],
                                      !.clock = now,
                                      !.table0 = user_sources]
    /\ UNCHANGED <<now, notTokens>>

TokDelete(user_id, source_type) ==
    /\ user_sources' = delete_tokens(user_sources, user_id, source_type, now)
    /\ tok_ret' = [NoTokenCall EXCEPT !.op = "delete_tokens",
                                      !.user_id = user_id,
                                      !.source_type = source_type,
                                      !.clock = now,
                                      !.table0 = user_sources]
    /\ UNCHANGED <<now, notTokens>>

TokGetUserTokens(user_id, source_type) ==
    /\ LET t == get_user_tokens(user_sources, user_id, source_type)
       IN  tok_ret' = [NoTokenCall EXCEPT !.op = "get_user_tokens",
                                          !.user_id = user_id,
                                          !.source_type = source_type,
                                          !.found = t.found,
                                          !.access_token = t.access_token,
                                          !.refresh_token = t.refresh_token,
                                          !.token_expires_at = t.token_expires_at,
                                          !.clock = now,
                                          !.table0 = user_sources]
    /\ UNCHANGED <<now, user_sources, notTokens>>

TokIsTokenExpired(user_id, source_type) ==
    /\ tok_ret' = [NoTokenCall EXCEPT !.op = "is_token_expired",
                                      !.user_id = user_id,
                                      !.source_type = source_type,
                                      !.expired = is_token_expired(user_sources,
                                                      user_id, source_type, now),
                                      !.clock = now,
                                          !.table0 = user_sources]
    /\ UNCHANGED <<now, user_sources, notTokens>>

TokGetSourceIdForUser(user_id, source_type) ==
    /\ tok_ret' = [NoTokenCall EXCEPT !.op = "get_source_id_for_user",
                                      !.user_id = user_id,
                                      !.source_type = source_type,
                                      !.found = get_source_id_for_user(user_sources,
                                                    user_id, source_type).found,
                                      !.clock = now,
                                      !.table0 = user_sources]
    /\ UNCHANGED <<now, user_sources, notTokens>>

\* get_valid_access_token storing a refreshed token when the stored one expired
TokGetValidAccessTokenRefreshing(user_id, source_type) ==
    /\ LET a == get_valid_access_token(user_sources, user_id, source_type, now)
           t == get_user_tokens(user_sources, user_id, source_type)
       IN  /\ tok_ret' = [NoTokenCall EXCEPT !.op = "get_valid_access_token",
                                             !.user_id = user_id,
                                             !.source_type = source_type,
                                             !.found = a # Null,
                                             !.access_token = a,
                                             !.clock = now,
                                             !.table0 = user_sources]
           /\ user_sources' =
                  IF a = Null /\ t.found /\ ~Falsy(t.refresh_token)
                  THEN save_user_tokens(user_sources, user_id, "a3", "r3",
                                        Int_(10 * 60), source_type, now)
                  ELSE user_sources
    /\ UNCHANGED <<now, notTokens>>

TokGetValidAccessToken(user_id, source_type) ==
    /\ LET a == get_valid_access_token(user_sources, user_id, source_type, now)
       IN  tok_ret' = [NoTokenCall EXCEPT !.op = "get_valid_access_token",
                                          !.user_id = user_id,
                                          !.source_type = source_type,
                                          !.found = a # Null,
                                          !.access_token = a,
                                          !.clock = now,
                                          !.table0 = user_sources]
    /\ UNCHANGED <<now, user_sources, notTokens>>

\* get_valid_access_token as the store sees it: two SELECTs, and the calls
\* of other processes between them
IdleGva ==
    [pc |-> "IDLE", user_id |-> "", source_type |-> "", tokens |-> NoTokens,
     read_at |-> 0, result |-> Null]

\* tokens = self.get_user_tokens(user_id, source_type); if not tokens: return None
GvaGetUserTokens(user_id, source_type) ==
    /\ gva.pc = "IDLE"
    /\ LET tokens == get_user_tokens(user_sources, user_id, source_type)
       IN  gva' = [pc |-> IF tokens.found THEN "CHECKING" ELSE "RETURNED",
                   user_id |-> user_id, source_type |-> source_type,
                   tokens |-> tokens, read_at |-> now, result |-> Null]
    /\ UNCHANGED <<user_sources, notGva>>

\* if self.is_token_expired(user_id, source_type): return None; else
\* return tokens["access_token"].  is_token_expired reads the row again
GvaIsTokenExpired ==
    /\ gva.pc = "CHECKING"
    /\ LET expired == is_token_expired(user_sources, gva.user_id,
                                       gva.source_type, now)
       IN  gva' = [gva EXCEPT !.pc = "RETURNED",
                              !.result = IF expired THEN Null
                                         ELSE gva.tokens.access_token]
    /\ UNCHANGED <<user_sources, notGva>>

\* the caller has the result; the next call may start
GvaReturn ==
    /\ gva.pc = "RETURNED"
    /\ gva' = IdleGva
    /\ UNCHANGED <<user_sources, notGva>>

\* a minute passes
TickMinute ==
    /\ now + 60 <= MaxMinutes * 60
    /\ now' = now + 60
    /\ UNCHANGED <<user_sources, tok_ret, notTokens>>

(***************************************************************************)
(* The runs and splits tables behind RunRepository                         *)
(***************************************************************************)
\* how many activities the provider holds, and the longest batch
MaxBatch == 3
\* how many times the script is run; the provider's data of an activity
\* differs from one run to the next
MaxSyncs == 2

ActivityIds == 1..MaxBatch

\* the per-mile splits the provider serves at the k-th run: cumulative
\* distance in miles, cumulative time in seconds
SplitsServed(k) ==
    << [distance |-> 1, seconds |-> 480 + k], [distance |-> 2, seconds |-> 960 + k] >>

\* Split: cumulative_distance (alias distance) gt=0, cumulative_seconds
\* (alias seconds) gt=0; no field is compared with another split
ValidSplit(s) == s.distance > 0 /\ s.seconds > 0

\* what get_activity_splits returns for an activity at the k-th run: the
\* first activity has fewer splits at every second run, the second has a
\* split repeated (a pause at the mile mark), the others have them all
ProviderSplits(activity_id, k) ==
    IF activity_id = 1
    THEN (IF k % 2 = 0 THEN SubSeq(SplitsServed(k), 1, 1) ELSE SplitsServed(k))
    ELSE IF activity_id = 2
    THEN << SplitsServed(k)[1], SplitsServed(k)[1] >>
    ELSE SplitsServed(k)

\* per-kilometre splits of the first activity, stored with unit "km"
KmRows ==
    { [activity_id |-> 1, split_unit |-> "km", split_number |-> i,
       cumulative_distance |-> i, cumulative_seconds |-> 300 * i] : i \in 1..2 }

\* the rows of a table that belong to one key
RunRows(rows, activity_id) == {r \in rows : r.activity_id = activity_id}
SplitRows(rows, activity_id, unit) ==
    {r \in rows : r.activity_id = activity_id /\ r.split_unit = unit}

\* a plain INSERT of the run
insert_run(rows, activity) == rows \cup {activity}

\* RunRepository.upsert_run(activity): insert, or replace on activity_id
upsert_run(rows, activity) ==
    (rows \ RunRows(rows, activity.activity_id)) \cup {activity}

\* upsert_splits adding the given splits to the ones stored
upsert_splits_append(rows, activity_id, split_list, unit) ==
    rows \cup
    { [activity_id |-> activity_id, split_unit |-> unit, split_number |-> i,
       cumulative_distance |-> split_list[i].distance,
       cumulative_seconds |-> split_list[i].seconds] : i \in 1..Len(split_list) }

\* RunRepository.upsert_splits(activity_id, splits, unit): the splits of
\* (activity_id, unit) replaced by the given ones, numbered from 1
upsert_splits(rows, activity_id, split_list, unit) ==
    (rows \ SplitRows(rows, activity_id, unit)) \cup
    { [activity_id |-> activity_id, split_unit |-> unit, split_number |-> i,
       cumulative_distance |-> split_list[i].distance,
       cumulative_seconds |-> split_list[i].seconds] : i \in 1..Len(split_list) }

(***************************************************************************)
(* scripts/sync_with_splits.py: main                                       *)
(***************************************************************************)
\* the script's position and locals.  sync is the number of the run of the
\* script; fates, last_payload, upsert_count and replaced are history: how
\* each pass of the loop ended, the payload of the latest successful
\* upsert_run of each id and how many there were (counted up to two), and
\* how many rows the latest upsert_splits of this run found stored for its key.
IdleBatch ==
    [pc |-> "idle", activities |-> <<>>, i |-> 0,
     runs_synced |-> 0, splits_synced |-> 0, splits_data |-> <<>>,
     fates |-> <<>>, sync |-> 0, replaced |-> 0,
     last_payload |-> [id \in ActivityIds |-> 0],
     upsert_count |-> [id \in ActivityIds |-> 0]]

\* the ids of a set in ascending order, as the provider lists them
RECURSIVE Ascending(_)
Ascending(ids) ==
    IF ids = {} THEN <<>>
    ELSE LET m == CHOOSE x \in ids : \A y \in ids : x <= y
         IN  <<m>> \o Ascending(ids \ {m})

\* the activity the loop is at, as parse_activity returns it
CurrentActivity ==
    [activity_id |-> batch.activities[batch.i], payload |-> batch.sync]

\* the loop left at the first failure (break) instead of continued
NextActivityBreak(b, fate) ==
    [b EXCEPT !.fates = Append(b.fates, fate),
              !.splits_data = <<>>,
              !.i = b.i + 1,
              !.pc = IF b.i + 1 > Len(b.activities)
                        \/ fate \in {"skipped", "run_stored_then_failed"}
                     THEN "complete" ELSE "parse"]

\* an activity whose parse or run upsert failed tried again
NextActivityRetry(b, fate) ==
    IF fate = "skipped"
    THEN [b EXCEPT !.splits_data = <<>>, !.pc = "parse"]
    ELSE [b EXCEPT !.fates = Append(b.fates, fate),
                   !.splits_data = <<>>,
                   !.i = b.i + 1,
                   !.pc = IF b.i + 1 > Len(b.activities) THEN "complete" ELSE "parse"]

\* the end of one pass of the loop body: the next activity, or the summary
NextActivity(b, fate) ==
    [b EXCEPT !.fates = Append(b.fates, fate),
              !.splits_data = <<>>,
              !.i = b.i + 1,
              !.pc = IF b.i + 1 > Len(b.activities) THEN "complete" ELSE "parse"]

\* the script starts and fetches the filtered activity list
\* (runs_synced = 0, splits_synced = 0)
BatchStart(ids) ==
    /\ batch.pc = "idle"
    /\ batch.sync < MaxSyncs
    /\ batch' = [IdleBatch EXCEPT !.activities = Ascending(ids),
                                  !.sync = batch.sync + 1,
                                  !.last_payload = batch.last_payload,
                                  !.upsert_count = batch.upsert_count,
                                  !.i = 1,
                                  !.pc = IF ids = {} THEN "complete" ELSE "parse"]
    /\ UNCHANGED <<runs, splits, notBatch>>

\* an exception before the loop (tokens file, user info, activity list)
\* reaches the handler under __main__
BatchStartFails ==
    /\ batch.pc = "idle"
    /\ batch.sync < MaxSyncs
    /\ batch' = [IdleBatch EXCEPT !.pc = "failed",
                                  !.sync = batch.sync + 1,
                                  !.last_payload = batch.last_payload,
                                  !.upsert_count = batch.upsert_count]
    /\ UNCHANGED <<runs, splits, notBatch>>

\* activity = api_client.parse_activity(activity_data)
BatchParse(ok) ==
    /\ batch.pc = "parse"
    /\ batch' = IF ok THEN [batch EXCEPT !.pc = "upsert_run"]
                ELSE NextActivity(batch, "skipped")
    /\ UNCHANGED <<runs, splits, notBatch>>

\* the run stored with a plain insert
BatchUpsertRunInsert(ok) ==
    /\ batch.pc = "upsert_run"
    /\ IF ok
       THEN /\ runs' = insert_run(runs, CurrentActivity)
            /\ batch' = [batch EXCEPT
                            !.pc = "fetch_splits",
                            !.runs_synced = @ + 1,
                            !.last_payload[CurrentActivity.activity_id] =
                                CurrentActivity.payload,
                            !.upsert_count[CurrentActivity.activity_id] =
                                IF @ < 2 THEN @ + 1 ELSE @]
       ELSE /\ runs' = runs
            /\ batch' = NextActivity(batch, "skipped")
    /\ UNCHANGED <<splits, notBatch>>

\* repo.upsert_run(activity); runs_synced += 1
BatchUpsertRun(ok) ==
    /\ batch.pc = "upsert_run"
    /\ IF ok
       THEN /\ runs' = upsert_run(runs, CurrentActivity)
            /\ batch' = [batch EXCEPT
                            !.pc = "fetch_splits",
                            !.runs_synced = @ + 1,
                            !.last_payload[CurrentActivity.activity_id] =
                                CurrentActivity.payload,
                            !.upsert_count[CurrentActivity.activity_id] =
                                IF @ < 2 THEN @ + 1 ELSE @]
       ELSE /\ runs' = runs
            /\ batch' = NextActivity(batch, "skipped")
    /\ UNCHANGED <<splits, notBatch>>

\* splits_data = api_client.get_activity_splits(activity.activity_id, unit="mi")
BatchFetchSplits(ok, has_splits) ==
    /\ batch.pc = "fetch_splits"
    /\ batch' = IF ~ok THEN NextActivity(batch, "run_stored_then_failed")
                ELSE IF ~has_splits THEN NextActivity(batch, "run_stored")
                ELSE [batch EXCEPT !.pc = "store_splits",
                                   !.splits_data =
                                       ProviderSplits(CurrentActivity.activity_id,
                                                      batch.sync)]
    /\ UNCHANGED <<runs, splits, notBatch>>

\* the splits counted before they are stored
BatchStoreSplitsCountFirst(ok) ==
    /\ batch.pc = "store_splits"
    /\ IF ok /\ \A j \in 1..Len(batch.splits_data) : ValidSplit(batch.splits_data[j])
       THEN /\ splits' = upsert_splits(splits, CurrentActivity.activity_id,
                                       batch.splits_data, "mi")
            /\ batch' = [NextActivity(batch, "run_and_splits_stored") EXCEPT
                            !.splits_synced = @ + Len(batch.splits_data),
                            !.replaced = Cardinality(SplitRows(splits,
                                             CurrentActivity.activity_id, "mi"))]
       ELSE /\ splits' = splits
            /\ batch' = [NextActivity(batch, "run_stored_then_failed") EXCEPT
                            !.splits_synced = @ + Len(batch.splits_data)]
    /\ UNCHANGED <<runs, notBatch>>

\* splits = parse_splits(splits_data); repo.upsert_splits(...);
\* splits_synced += len(splits)
BatchStoreSplits(ok) ==
    /\ batch.pc = "store_splits"
    /\ IF ok /\ \A j \in 1..Len(batch.splits_data) : ValidSplit(batch.splits_data[j])
       THEN /\ splits' = upsert_splits(splits, CurrentActivity.activity_id,
                                       batch.splits_data, "mi")
            /\ batch' = [NextActivity(batch, "run_and_splits_stored") EXCEPT
                            !.splits_synced = @ + Len(batch.splits_data),
                            !.replaced = Cardinality(SplitRows(splits,
                                             CurrentActivity.activity_id, "mi"))]
       ELSE /\ splits' = splits
            /\ batch' = NextActivity(batch, "run_stored_then_failed")
    /\ UNCHANGED <<runs, notBatch>>

\* "Sync Complete!" and the counts are printed; the script ends
BatchExit ==
    /\ batch.pc \in {"complete", "failed"}
    /\ batch' = [IdleBatch EXCEPT !.sync = batch.sync,
                                  !.last_payload = batch.last_payload,
                                  !.upsert_count = batch.upsert_count]
    /\ UNCHANGED <<runs, splits, notBatch>>

(***************************************************************************)
(* The sync orchestrator: the state machine that ties the TokenRepository, *)
(* the provider, the run store and the SyncStateManager together           *)
(***************************************************************************)
OrchUser == "u1"
OrchSource == "smashrun"

\* the activities the provider may hold in a window
OrchIds == 1..MaxRuns

IdleOrch ==
    [state |-> "IDLE", outcome |-> "", error |-> "",
     year |-> NoInt, since |-> NoText,
     window_since |-> NoDate, window_until |-> NoDate,
     access_token |-> Null, row0 |-> NoRow, refreshed_with |-> Null,
     activities |-> {}, transformed |-> {}, runs_synced |-> 0,
     fetched |-> FALSE, secret0 |-> NoSecret, runs0 |-> {}, persisted |-> {}]

\* the window resolution policy: year, since, or the incremental default
WindowPolicy(year, since, today, last_sync) ==
    IF year.given
    THEN Resolved(Date(year.value, 1, 1), Date(year.value, 12, 31), FALSE)
    ELSE IF since.given
    THEN LET s == FromIsoFormat(since.text)
         IN  IF s.ok THEN Resolved(s.value, today, FALSE) ELSE InvalidDate(FALSE)
    ELSE Resolved(last_sync, today, TRUE)

\* a fatal error: recordSyncAttempt(success = false), then ABORTED
Abort(o, error) == [o EXCEPT !.state = "ABORTED", !.outcome = "aborted", !.error = error]

AbortRecorded(sec, today, clock) ==
    record_sync_attempt(sec, FALSE, 0, today, clock, "none").secret

\* an invocation starts
OrchStart(year, since) ==
    /\ orch = IdleOrch
    /\ orch' = [IdleOrch EXCEPT !.state = "RESOLVING_WINDOW", !.year = year,
                                !.since = since, !.secret0 = secret,
                                !.runs0 = runs]
    /\ UNCHANGED <<now, secret, user_sources, runs, notOrch>>

OrchResolveWindow(fault) ==
    /\ orch.state = "RESOLVING_WINDOW"
    /\ LET last == SyncStateManager_get_last_sync_date(secret, Today, fault)
           w == WindowPolicy(orch.year, orch.since, Today, last.value)
       IN  IF w.outcome = "ok"
           THEN /\ orch' = [orch EXCEPT !.state = "ENSURING_TOKEN",
                                        !.window_since = w.since_date,
                                        !.window_until = w.until_date]
                /\ secret' = secret
           ELSE /\ orch' = Abort(orch, "InvalidDateError")
                /\ secret' = AbortRecorded(secret, Today, now)
    /\ UNCHANGED <<now, user_sources, runs, notOrch>>

\* the token ensure step; refresh_ok is the answer of OAuthClient.refreshToken
OrchEnsureToken(refresh_ok) ==
    /\ orch.state = "ENSURING_TOKEN"
    /\ LET token == get_valid_access_token(user_sources, OrchUser, OrchSource, now)
           stored == get_user_tokens(user_sources, OrchUser, OrchSource)
           o == [orch EXCEPT !.row0 = user_sources[<<OrchUser, OrchSource>>]]
       IN  IF token # Null
           THEN /\ orch' = [o EXCEPT !.state = "FETCHING", !.access_token = token]
                /\ UNCHANGED <<user_sources, secret>>
           ELSE IF ~stored.found \/ Falsy(stored.refresh_token)
           THEN /\ orch' = Abort(o, "AuthRequiredError")
                /\ secret' = AbortRecorded(secret, Today, now)
                /\ UNCHANGED user_sources
           ELSE IF refresh_ok
           THEN /\ user_sources' = save_user_tokens(user_sources, OrchUser, "a2", "r2",
                                                    Int_(60 * 60), OrchSource, now)
                /\ orch' = [o EXCEPT !.state = "FETCHING", !.access_token = "a2",
                                     !.refreshed_with = stored.refresh_token]
                /\ UNCHANGED secret
           ELSE /\ orch' = Abort(o, "AuthError")
                /\ secret' = AbortRecorded(secret, Today, now)
                /\ UNCHANGED user_sources
    /\ UNCHANGED <<now, runs, notOrch>>

\* the activities of the window are fetched from the provider
OrchFetch(ok, ids) ==
    /\ orch.state = "FETCHING"
    /\ IF ok
       THEN /\ orch' = [orch EXCEPT !.state = "TRANSFORMING", !.activities = ids,
                                    !.fetched = TRUE]
            /\ secret' = secret
       ELSE /\ orch' = Abort([orch EXCEPT !.fetched = TRUE], "ProviderRequestError")
            /\ secret' = AbortRecorded(secret, Today, now)
    /\ UNCHANGED <<now, user_sources, runs, notOrch>>

\* each activity is transformed; the ones that fail are skipped
OrchTransform(failed) ==
    /\ orch.state = "TRANSFORMING"
    /\ failed \subseteq orch.activities
    /\ orch' = [orch EXCEPT !.state = "PERSISTING",
                            !.transformed = orch.activities \ failed]
    /\ UNCHANGED <<now, secret, user_sources, runs, notOrch>>

RECURSIVE UpsertAll(_, _)
UpsertAll(rows, ids) ==
    IF ids = {} THEN rows
    ELSE LET id == CHOOSE x \in ids : TRUE
         IN  UpsertAll(upsert_run(rows, [activity_id |-> id, payload |-> 0]),
                       ids \ {id})

\* each transformed activity is upserted; the ones that fail are skipped
OrchPersist(failed) ==
    /\ orch.state = "PERSISTING"
    /\ failed \subseteq orch.transformed
    /\ runs' = UpsertAll(runs, orch.transformed \ failed)
    /\ orch' = [orch EXCEPT !.state = "RECORDING",
                            !.persisted = orch.transformed \ failed,
                            !.runs_synced = Cardinality(orch.transformed \ failed)]
    /\ UNCHANGED <<now, secret, user_sources, notOrch>>

\* recordSyncAttempt(success = true, runs_synced); a store failure propagates
OrchRecord(fault) ==
    /\ orch.state = "RECORDING"
    /\ LET r == record_sync_attempt(secret, TRUE, orch.runs_synced, Today, now, fault)
       IN  /\ secret' = r.secret
           /\ orch' = IF r.raised THEN Abort(orch, "StoreWriteError")
                      ELSE [orch EXCEPT !.state = "IDLE", !.outcome = "success"]
    /\ UNCHANGED <<now, user_sources, runs, notOrch>>

\* the invocation has returned its result, or its error, to the caller
OrchReturn ==
    /\ orch.outcome \in {"success", "aborted"}
    /\ orch' = IdleOrch
    /\ UNCHANGED <<now, secret, user_sources, runs, notOrch>>

\* token sets an authorization stores: <<access, refresh, expires_in>>
Authorizations ==
    {<<"a1", "r1", Int_(60 * 60)>>, <<"a1", "r1", NoInt>>, <<"", "r2", NoInt>>}

\* out of band: the user authorizes, and the tokens are stored
OrchAuthorize(pair, expires_in) ==
    /\ orch = IdleOrch
    /\ user_sources' = save_user_tokens(user_sources, OrchUser, pair[1], pair[2],
                                         expires_in, OrchSource, now)
    /\ user_sources' # user_sources
    /\ UNCHANGED <<now, secret, runs, orch, notOrch>>

\* out of band: the user disconnects
OrchDisconnect ==
    /\ orch = IdleOrch
    /\ user_sources' = delete_tokens(user_sources, OrchUser, OrchSource, now)
    /\ user_sources' # user_sources
    /\ UNCHANGED <<now, secret, runs, orch, notOrch>>

\* a day passes between invocations
OrchTickDay ==
    /\ orch = IdleOrch
    /\ now + SecondsPerDay <= MaxDays * SecondsPerDay
    /\ now' = now + SecondsPerDay
    /\ UNCHANGED <<secret, user_sources, runs, orch, notOrch>>

(***************************************************************************)
(* Specifications                                                          *)
(***************************************************************************)
vars == <<now, state_file, cli, posted, secret, ssm_ret, program,
          user_sources, tok_ret, runs, splits, batch, orch, gva>>

\* what every specification starts from
Fresh ==
    /\ now = 0
    /\ state_file = NoFile
    /\ cli = IdleCli
    /\ posted = NoRequest
    /\ secret = NoSecret
    /\ ssm_ret = NoCall
    /\ tok_ret = NoTokenCall
    /\ runs = {}
    /\ batch = IdleBatch
    /\ orch = IdleOrch
    /\ gva = IdleGva

\* the stk CLI on a user's machine, or a caller of the SyncStateManager
Init ==
    /\ Fresh
    /\ program \in {"stk", "lambda"}
    /\ user_sources = EmptyTable
    /\ splits = {}

Next ==
    \/ \E since \in SinceArgs, until \in UntilArgs, year \in YearArgs, full \in BOOLEAN :
           CliInvoke(since, until, year, full)
    \/ CliResolveWindow
    \/ \E failure \in PostFailures : CliPostFails(failure)
    \/ \E has \in BOOLEAN, n \in 0..MaxRuns, u \in UntilAnswers : CliPostReturns(has, n, u)
    \/ CliRecord
    \/ \E landed \in BOOLEAN : CliKill(landed)
    \/ CliExit
    \/ TickDay
    \/ \E fault \in StoreFaults : SsmGetLastSyncDate(fault)
    \/ \E text \in ForeignDates : SsmSecretPutElsewhere(text)
    \/ \E d \in SyncDates, n \in 0..MaxRuns, fault \in StoreFaults :
           SsmUpdateLastSyncDate(d, n, fault)
    \/ \E ok \in BOOLEAN, n \in 0..MaxRuns, fault \in StoreFaults :
           SsmRecordSyncAttempt(ok, n, fault)

Spec == Init /\ [][Next]_vars

\* callers of the TokenRepository
InitTokens ==
    /\ Fresh
    /\ program = "tokens"
    /\ user_sources \in InitialTables
    /\ splits = {}

NextTokens ==
    \/ \E k \in CallKeys, p \in TokenPairs, e \in ExpiresIn : TokSave(k[1], p, e, k[2])
    \/ \E k \in CallKeys : TokDelete(k[1], k[2])
    \/ \E k \in CallKeys : TokGetUserTokens(k[1], k[2])
    \/ \E k \in CallKeys : TokIsTokenExpired(k[1], k[2])
    \/ \E k \in CallKeys : TokGetValidAccessToken(k[1], k[2])
    \/ \E k \in CallKeys : TokGetSourceIdForUser(k[1], k[2])
    \/ TickMinute

SpecTokens == InitTokens /\ [][NextTokens]_vars

\* get_valid_access_token beside other processes that save and delete tokens
InitRace ==
    /\ Fresh
    /\ program = "tokens_concurrent"
    /\ user_sources \in InitialTables
    /\ splits = {}

\* what the other processes store meanwhile: tokens that expire within the
\* buffer, after it, or never
RacePairs == {<<"a1", "r1">>, <<"a3", "r3">>}
RaceExpiresIn == {NoInt, Int_(4 * 60), Int_(10 * 60)}

NextRace ==
    \/ \E k \in CallKeys : GvaGetUserTokens(k[1], k[2])
    \/ GvaIsTokenExpired
    \/ GvaReturn
    \/ \E k \in CallKeys, p \in RacePairs, e \in RaceExpiresIn : TokSave(k[1], p, e, k[2])
    \/ \E k \in CallKeys : TokDelete(k[1], k[2])
    \/ TickMinute

SpecRace == InitRace /\ [][NextRace]_vars

\* runs of scripts/sync_with_splits.py, on a store that holds the
\* per-kilometre splits of one activity
InitBatch ==
    /\ Fresh
    /\ program = "sync_with_splits"
    /\ user_sources = EmptyTable
    /\ splits = KmRows

NextBatch ==
    \/ \E ids \in SUBSET ActivityIds : BatchStart(ids)
    \/ BatchStartFails
    \/ \E ok \in BOOLEAN : BatchParse(ok)
    \/ \E ok \in BOOLEAN : BatchUpsertRun(ok)
    \/ \E ok \in BOOLEAN, has \in BOOLEAN : BatchFetchSplits(ok, has)
    \/ \E ok \in BOOLEAN : BatchStoreSplits(ok)
    \/ BatchExit

SpecBatch == InitBatch /\ [][NextBatch]_vars

\* one pass of the body of `for activity_data in october_activities`: every
\* call in it returns or raises, so a started script keeps taking steps
BatchLoopStep ==
    \/ \E ok \in BOOLEAN : BatchParse(ok)
    \/ \E ok \in BOOLEAN : BatchUpsertRun(ok)
    \/ \E ok \in BOOLEAN, has \in BOOLEAN : BatchFetchSplits(ok, has)
    \/ \E ok \in BOOLEAN : BatchStoreSplits(ok)

\* how many runs of the script the termination of the loop is followed over
LiveRuns == 1

BatchStartLive(ids) ==
    /\ batch.sync < LiveRuns
    /\ BatchStart(ids)

NextBatchLive ==
    \/ \E ids \in SUBSET ActivityIds : BatchStartLive(ids)
    \/ BatchStartFails
    \/ BatchLoopStep
    \/ BatchExit

\* the script as a sequential process: started or not, it runs on
SpecBatchLive == InitBatch /\ [][NextBatchLive]_vars /\ WF_vars(BatchLoopStep)

\* invocations of the sync orchestrator for one user
InitOrch ==
    /\ Fresh
    /\ program = "sync"
    /\ user_sources = [EmptyTable EXCEPT ![<<OrchUser, OrchSource>>] = NewRow(TRUE)]
    /\ splits = {}

NextOrch ==
    \/ \E year \in {NoInt, Int_(2015)}, since \in {NoText, Text(BadText)} :
           OrchStart(year, since)
    \/ \E fault \in {"none", "get_ClientError"} : OrchResolveWindow(fault)
    \/ \E ok \in BOOLEAN : OrchEnsureToken(ok)
    \/ \E ok \in BOOLEAN, ids \in SUBSET OrchIds : OrchFetch(ok, ids)
    \/ \E failed \in SUBSET OrchIds : OrchTransform(failed)
    \/ \E failed \in SUBSET OrchIds : OrchPersist(failed)
    \/ \E fault \in StoreFaults \ {"get_ClientError"} : OrchRecord(fault)
    \/ \E a \in Authorizations : OrchAuthorize(<<a[1], a[2]>>, a[3])
    \/ OrchDisconnect
    \/ OrchReturn
    \/ OrchTickDay

SpecOrch == InitOrch /\ [][NextOrch]_vars

(***************************************************************************)
(* Properties                                                              *)
(***************************************************************************)

\* C1: the last-sync date is written only on success.  A call
\* record_sync_attempt(success = False, ...) leaves the secret as it was, and
\* a `stk sync` that ends in an abort (invalid date, request failure, timeout,
\* or any other exception) leaves the state file as it was when it started.
C1_NoWriteOnFailure ==
    /\ (ssm_ret.op = "record_sync_attempt" /\ ~ssm_ret.success) =>
           secret = ssm_ret.secret0
    /\ cli.pc = "ABORTED" => state_file = cli.state_file0

\* a sync timed out while a state file of an earlier sync existed
C1_Witness ==
    /\ cli.pc = "ABORTED"
    /\ cli.error = "timeout"
    /\ state_file.exists
    /\ state_file.runs_synced > 0

\* C2: after any sequence of upsert_run calls, over any number of runs of the
\* script, the runs table holds exactly one row per activity_id ever
\* upserted, and that row carries the payload of the latest upsert of the id.
C2_OneRowPerActivity ==
    \A id \in ActivityIds :
        IF batch.upsert_count[id] = 0
        THEN RunRows(runs, id) = {}
        ELSE RunRows(runs, id) =
                 {[activity_id |-> id, payload |-> batch.last_payload[id]]}

\* an activity was upserted twice, the second time with another payload
C2_Witness ==
    \E id \in ActivityIds :
        /\ batch.upsert_count[id] = 2
        /\ batch.last_payload[id] = 2
        /\ Cardinality(RunRows(runs, id)) = 1

\* C3: is_token_expired returns True when get_user_tokens finds nothing,
\* False when the tokens have no expiry, and otherwise True exactly when
\* now + 5 minutes >= token_expires_at: True at now + 4 min and at exactly
\* now + 5 min, False at now + 10 min.
C3_IsTokenExpired ==
    tok_ret.op = "is_token_expired" =>
        LET row == user_sources[<<tok_ret.user_id, tok_ret.source_type>>]
            absent == ~get_user_tokens(user_sources, tok_ret.user_id,
                                       tok_ret.source_type).found
            at == tok_ret.clock
        IN  /\ absent => tok_ret.expired
            /\ (~absent /\ row.token_expires_at = NullTime) => ~tok_ret.expired
            /\ (~absent /\ row.token_expires_at # NullTime) =>
                   (tok_ret.expired <=> at + 300 >= row.token_expires_at)
            /\ (~absent /\ row.token_expires_at = at + 240) => tok_ret.expired
            /\ (~absent /\ row.token_expires_at = at + 300) => tok_ret.expired
            /\ (~absent /\ row.token_expires_at = at + 600) => ~tok_ret.expired

\* is_token_expired ran on a token that expires in exactly 5 minutes
C3_Witness ==
    /\ tok_ret.op = "is_token_expired"
    /\ tok_ret.expired
    /\ get_user_tokens(user_sources, tok_ret.user_id, tok_ret.source_type).found
    /\ user_sources[<<tok_ret.user_id, tok_ret.source_type>>].token_expires_at
           = tok_ret.clock + 300

\* the date the CLI reads as the last sync date: the one in the state file the
\* invocation found, or today - 30 days without a file
C4_IsLastSyncDate(d) ==
    IF cli.state_file0.exists
    THEN IsoFormat(d) = cli.state_file0.last_sync_date
    ELSE ToOrdinal(d) = ToOrdinal(Today) - 30

\* C4: window resolution is first-match-wins over (year, full, since/until,
\* none).  Whenever sync_runs has resolved a window it is [Jan 1, Dec 31] of
\* year if year is given, whatever today and the state file are; else
\* [2010-01-01, today] if full; else [since, or the last sync date without
\* since; until, or today without until] if since or until is given; else
\* [last sync date, today].  An option is given when it has a non-empty value.
C4_WindowResolution ==
    cli.pc \in {"REQUESTING", "RECORDING", "DONE"} =>
        LET s == cli.since_date
            u == cli.until_date
            sinceGiven == cli.since.given /\ cli.since.text # <<>>
            untilGiven == cli.until.given /\ cli.until.text # <<>>
        IN  IF cli.year.given
            THEN /\ s = [year |-> cli.year.value, month |-> 1, day |-> 1]
                 /\ u = [year |-> cli.year.value, month |-> 12, day |-> 31]
            ELSE IF cli.full
            THEN /\ s = [year |-> 2010, month |-> 1, day |-> 1]
                 /\ u = Today
            ELSE IF sinceGiven \/ untilGiven
            THEN /\ IF sinceGiven THEN IsoFormat(s) = cli.since.text
                    ELSE C4_IsLastSyncDate(s)
                 /\ IF untilGiven THEN IsoFormat(u) = cli.until.text
                    ELSE u = Today
            ELSE /\ C4_IsLastSyncDate(s)
                 /\ u = Today

\* --year and --full and --since together: the year decided the window
C4_Witness ==
    /\ cli.pc = "REQUESTING"
    /\ cli.year = Int_(2015) /\ cli.full /\ cli.since = Text(GoodSince)
    /\ cli.since_date = Date(2015, 1, 1)
    /\ cli.until_date = Date(2015, 12, 31)
    /\ state_file.exists

\* C5: the request the CLI sends covers exactly the resolved window: a full
\* request only when the window is [2010-01-01, today], and else the since
\* and until of the window; with --year and --full, the year's window.
C5_RequestCoversWindow ==
    (posted.sent /\ cli.pc \in {"RECORDING", "DONE", "ABORTED"}) =>
        IF posted.full
        THEN cli.since_date = SmashRunLaunch /\ cli.until_date = Today
        ELSE /\ posted.since = IsoFormat(cli.since_date)
             /\ posted.until = IsoFormat(cli.until_date)

\* C6: after a successful sync of the window [since, until], the stored
\* last-sync date is the window's until.
C6_CursorIsWindowUntil ==
    orch.outcome = "success" =>
        secret.last_sync_date = IsoFormat(orch.window_until)

\* how many passes of the loop ended with the given fates
CountFates(fs) ==
    Cardinality({i \in 1..Len(batch.fates) : batch.fates[i] \in fs})

\* the split rows of the table that the current run of the script served
RowsOfThisSync(activity_id) ==
    {r \in SplitRows(splits, activity_id, "mi") :
        \E j \in 1..Len(ProviderSplits(activity_id, batch.sync)) :
            /\ r.split_number = j
            /\ r.cumulative_distance =
                   ProviderSplits(activity_id, batch.sync)[j].distance
            /\ r.cumulative_seconds =
                   ProviderSplits(activity_id, batch.sync)[j].seconds}

\* C7: per-activity failure isolation.  When the script completes, every
\* activity of the batch has been attempted, whatever failed; each activity
\* whose parse or run upsert failed has no run of this sync in the table;
\* every other activity has its run stored, and its splits too unless their
\* fetch or store failed; the synced count is the number of stored runs; and
\* no failure inside the loop ends the script as failed.
C7_FailureIsolation ==
    /\ batch.pc = "complete" =>
          /\ Len(batch.fates) = Len(batch.activities)
          /\ \A i \in 1..Len(batch.activities) :
                LET run == [activity_id |-> batch.activities[i],
                            payload |-> batch.sync]
                IN  /\ batch.fates[i] = "skipped" => run \notin runs
                    /\ batch.fates[i] # "skipped" => run \in runs
                    /\ batch.fates[i] = "run_and_splits_stored" =>
                           Cardinality(RowsOfThisSync(batch.activities[i]))
                               = Len(ProviderSplits(batch.activities[i], batch.sync))
          /\ batch.runs_synced = Len(batch.activities) - CountFates({"skipped"})
    /\ batch.pc = "failed" => batch.activities = <<>>

\* three activities, the second failed: runs 1 and 3, a synced count of 2
C7_Witness ==
    /\ batch.pc = "complete"
    /\ batch.activities = <<1, 2, 3>>
    /\ batch.fates = <<"run_and_splits_stored", "skipped", "run_and_splits_stored">>
    /\ batch.runs_synced = 2
    /\ {r.activity_id : r \in {x \in runs : x.payload = batch.sync}} = {1, 3}

\* C8: at every point of a run of the script, runs_synced is the number of
\* runs this sync stored and splits_synced the number of split rows this sync
\* stored; an activity whose run was stored and whose split fetch or split
\* store failed is a stored run with no split row of this sync.
C8_CountsMatchStore ==
    batch.pc \notin {"idle", "failed"} =>
        /\ batch.runs_synced =
               Cardinality({r \in runs : r.payload = batch.sync})
        /\ batch.splits_synced =
               Cardinality(UNION {RowsOfThisSync(id) : id \in ActivityIds})
        /\ \A i \in 1..Len(batch.fates) :
               batch.fates[i] = "run_stored_then_failed" =>
                   /\ [activity_id |-> batch.activities[i],
                       payload |-> batch.sync] \in runs
                   /\ RowsOfThisSync(batch.activities[i]) = {}

\* a run whose splits failed beside a run whose splits were stored
C8_Witness ==
    /\ batch.pc = "complete"
    /\ CountFates({"run_stored_then_failed"}) = 1
    /\ CountFates({"run_and_splits_stored"}) = 1
    /\ batch.runs_synced = 2
    /\ batch.splits_synced = 2
    /\ batch.sync = 2

C10_Order ==
    {<<"IDLE", "RESOLVING_WINDOW">>, <<"RESOLVING_WINDOW", "ENSURING_TOKEN">>,
     <<"ENSURING_TOKEN", "FETCHING">>, <<"FETCHING", "TRANSFORMING">>,
     <<"TRANSFORMING", "PERSISTING">>, <<"PERSISTING", "RECORDING">>,
     <<"RECORDING", "IDLE">>}

CallRow == user_sources[<<tok_ret.user_id, tok_ret.source_type>>]
CallRow0 == tok_ret.table0[<<tok_ret.user_id, tok_ret.source_type>>]

\* C11: get_valid_access_token returns the stored access_token if and only
\* if the active source holds an access token that has no expiry or expires
\* more than 5 minutes from now; with no active source, no access token, or
\* an expiry within 5 minutes or past, it returns None.
C11_ValidAccessToken ==
    tok_ret.op = "get_valid_access_token" =>
        LET present == /\ CallRow.exists /\ CallRow.is_active
                       /\ CallRow.access_token \notin {Null, ""}
            fresh == \/ CallRow.token_expires_at = NullTime
                     \/ tok_ret.clock + 300 < CallRow.token_expires_at
        IN  IF present /\ fresh
            THEN tok_ret.access_token = CallRow.access_token
            ELSE tok_ret.access_token = Null

\* a token that expires in 10 minutes was returned
C11_Witness ==
    /\ tok_ret.op = "get_valid_access_token"
    /\ tok_ret.access_token = "a1"
    /\ CallRow.token_expires_at = tok_ret.clock + 600

C13_GetUserTokens ==
    tok_ret.op = "get_user_tokens" =>
        IF /\ CallRow.exists /\ CallRow.is_active
           /\ CallRow.access_token \notin {Null, ""}
        THEN /\ tok_ret.found
             /\ tok_ret.access_token = CallRow.access_token
             /\ tok_ret.refresh_token = CallRow.refresh_token
             /\ tok_ret.token_expires_at = CallRow.token_expires_at
        ELSE /\ ~tok_ret.found
             /\ tok_ret.access_token = Null
             /\ tok_ret.refresh_token = Null

\* the tokens of a deactivated source were asked for and not returned
C13_Witness ==
    /\ tok_ret.op = "get_user_tokens"
    /\ ~tok_ret.found
    /\ CallRow.exists /\ ~CallRow.is_active
    /\ CallRow.access_token = "a0"

\* C14: save_user_tokens stores token_expires_at = now + expires_in for every
\* expires_in that is given, 0 included, and a null expiry only when
\* expires_in is None.
C14_ExpiryStored ==
    (/\ tok_ret.op = "save_user_tokens"
     /\ CallRow0.exists /\ CallRow0.is_active) =>
        CallRow.token_expires_at =
            IF tok_ret.expires_in.given
            THEN tok_ret.clock + tok_ret.expires_in.value
            ELSE NullTime

\* C15: save_user_tokens without an active row for (user, source) changes
\* nothing: no row is created, and no row is modified, an inactive row of
\* the same user and source included.
C15_SaveWithoutActiveRow ==
    (/\ tok_ret.op = "save_user_tokens"
     /\ ~(CallRow0.exists /\ CallRow0.is_active)) =>
        user_sources = tok_ret.table0

\* tokens were saved for a user whose only source of the type is deactivated
C15_Witness ==
    /\ tok_ret.op = "save_user_tokens"
    /\ tok_ret.access_token = "a1"
    /\ CallRow0 = DeactivatedRow
    /\ CallRow = DeactivatedRow

\* C16: save_user_tokens overwrites: with an active row, after
\* save_user_tokens(user, a, r, e, source) with a non-empty a,
\* get_user_tokens(user, source) returns a and r whatever was stored before,
\* the expiry is of this call, and updated_at is the time of the call.
C16_SaveOverwrites ==
    (/\ tok_ret.op = "save_user_tokens"
     /\ CallRow0.exists /\ CallRow0.is_active
     /\ tok_ret.access_token \notin {Null, ""}) =>
        LET t == get_user_tokens(user_sources, tok_ret.user_id, tok_ret.source_type)
        IN  /\ t.found
            /\ t.access_token = tok_ret.access_token
            /\ t.refresh_token = tok_ret.refresh_token
            /\ t.token_expires_at \in
                   {NullTime, tok_ret.clock + tok_ret.expires_in.value}
            /\ CallRow.updated_at = tok_ret.clock

\* the tokens a3, r3 with an expiry were overwritten by a1, r1 without one
C16_Witness ==
    /\ tok_ret.op = "save_user_tokens"
    /\ CallRow0.is_active
    /\ CallRow0.access_token = "a3" /\ CallRow0.refresh_token = "r3"
    /\ CallRow0.token_expires_at = 600
    /\ tok_ret.access_token = "a1" /\ tok_ret.refresh_token = "r1"
    /\ tok_ret.expires_in = NoInt
    /\ CallRow.token_expires_at = NullTime

\* C17: delete_tokens sets access_token, refresh_token and token_expires_at
\* of the source row to null and leaves the row in place with its is_active
\* flag; every other row is untouched; right after it get_user_tokens and
\* get_valid_access_token return None and is_token_expired returns True.
C17_DeleteTokens ==
    tok_ret.op = "delete_tokens" =>
        /\ CallRow.exists = CallRow0.exists
        /\ CallRow.is_active = CallRow0.is_active
        /\ CallRow.access_token = Null
        /\ CallRow.refresh_token = Null
        /\ CallRow.token_expires_at = NullTime
        /\ \A k \in SourceKeys \ {<<tok_ret.user_id, tok_ret.source_type>>} :
               user_sources[k] = tok_ret.table0[k]
        /\ ~get_user_tokens(user_sources, tok_ret.user_id,
                            tok_ret.source_type).found
        /\ get_valid_access_token(user_sources, tok_ret.user_id,
                                  tok_ret.source_type, tok_ret.clock) = Null
        /\ is_token_expired(user_sources, tok_ret.user_id,
                            tok_ret.source_type, tok_ret.clock)

\* the tokens of an active source were deleted
C17_Witness ==
    /\ tok_ret.op = "delete_tokens"
    /\ CallRow0.is_active
    /\ CallRow0.access_token = "a1" /\ CallRow0.refresh_token = "r1"
    /\ CallRow.is_active
    /\ CallRow.access_token = Null
    /\ CallRow.updated_at = tok_ret.clock

\* C18: SyncStateManager.get_last_sync_date never raises: it returns the
\* stored last_sync_date when the secret is read and holds a date, and today
\* - 30 days in every other case: no secret, a secret without last_sync_date,
\* a ClientError of the read, a last_sync_date that is no date.
C18_NeverPropagates ==
    ssm_ret.op = "get_last_sync_date" =>
        /\ ~ssm_ret.raised
        /\ \/ /\ ssm_ret.secret0.exists
              /\ IsoFormat(ssm_ret.value) = ssm_ret.secret0.last_sync_date
           \/ ToOrdinal(ssm_ret.value) = ToOrdinal(ssm_ret.today) - 30

\* C19: update_last_sync_date(d, n) stores last_sync_date = d, the current
\* timestamp and runs_synced = n as one record, created when the secret is
\* missing and replaced otherwise, and get_last_sync_date() then returns d;
\* update_sync_state(d, n) of the CLI does the same with the state file.
C19_UpdateThenGet ==
    /\ (ssm_ret.op = "update_last_sync_date" /\ ~ssm_ret.raised) =>
          /\ secret = [exists |-> TRUE,
                       last_sync_date |-> IsoFormat(ssm_ret.sync_date),
                       last_sync_timestamp |-> ssm_ret.clock,
                       runs_synced |-> ssm_ret.runs_synced]
          /\ SyncStateManager_get_last_sync_date(secret, ssm_ret.today, "none")
                 = [ok |-> TRUE, value |-> ssm_ret.sync_date]
    /\ (cli.pc = "DONE" /\ cli.result.has_runs_synced /\ cli.result.runs_synced > 0) =>
          LET sync_until == IF cli.result.has_until THEN cli.result.until
                            ELSE IsoFormat(cli.until_date)
              r == get_last_sync_date(state_file, Today)
          IN  /\ state_file.exists
              /\ state_file.runs_synced = cli.result.runs_synced
              /\ state_file.last_sync_timestamp = now
              /\ r.ok
              /\ IsoFormat(r.value) = sync_until

\* a historical date was stored when no secret existed yet
C19_Witness ==
    /\ ssm_ret.op = "update_last_sync_date"
    /\ ~ssm_ret.raised
    /\ ~ssm_ret.secret0.exists
    /\ ssm_ret.sync_date = Date(2015, 12, 31)
    /\ secret.exists
    /\ ssm_ret.runs_synced = 1

\* C20: a store failure while the sync state is written is propagated: the
\* invocation ends as an error, the stored sync state is what it was before
\* the invocation and every run upserted by it, or stored before it, is
\* still in the runs table; and an invocation that ends as a success has
\* written the sync state.
C20_WriteFailurePropagates ==
    /\ orch.error = "StoreWriteError" =>
          /\ orch.state = "ABORTED" /\ orch.outcome = "aborted"
          /\ secret = orch.secret0
          /\ orch.runs0 \subseteq runs
          /\ \A id \in orch.persisted : \E r \in runs : r.activity_id = id
    /\ orch.outcome = "success" =>
          /\ secret.exists
          /\ secret.last_sync_timestamp = now
          /\ secret.runs_synced = orch.runs_synced

\* the write failed after a run was upserted, with a sync state of an
\* earlier invocation in the store
C20_Witness ==
    /\ orch.error = "StoreWriteError"
    /\ orch.persisted # {}
    /\ orch.secret0.exists
    /\ secret.exists
    /\ runs # {}

\* C21: record_sync_attempt(success = True, n) calls
\* update_last_sync_date(today, n): after it returns, the stored
\* last_sync_date is today's date and runs_synced is n.
C21_RecordStoresToday ==
    (ssm_ret.op = "record_sync_attempt" /\ ssm_ret.success /\ ~ssm_ret.raised) =>
        /\ secret.exists
        /\ secret.last_sync_date = IsoFormat(ssm_ret.today)
        /\ secret.runs_synced = ssm_ret.runs_synced
        /\ secret.last_sync_timestamp = ssm_ret.clock

\* a success with one run was recorded over a secret holding a historical date
C21_Witness ==
    /\ ssm_ret.op = "record_sync_attempt"
    /\ ssm_ret.success /\ ~ssm_ret.raised
    /\ ssm_ret.runs_synced = 1
    /\ ssm_ret.secret0.last_sync_date = IsoFormat(Date(2015, 12, 31))
    /\ secret.last_sync_date = IsoFormat(Date(2024, 1, 30))

\* an option holding a text that is no date
C22_Unparsable(o) == o.given /\ o.text # <<>> /\ ~FromIsoFormat(o.text).ok

\* C22: an unparsable --since or --until fails the whole invocation before
\* any request and before any access to the state file, reads included, for
\* every combination of the options: the command aborts as an invalid date,
\* has not read the state file, has sent no request and has written nothing.
C22_InvalidDateFailsFirst ==
    (/\ cli.pc \in {"REQUESTING", "RECORDING", "DONE", "ABORTED"}
     /\ C22_Unparsable(cli.since) \/ C22_Unparsable(cli.until)) =>
        /\ cli.pc = "ABORTED"
        /\ cli.error = "invalid_date"
        /\ ~cli.read_state
        /\ ~posted.sent
        /\ state_file = cli.state_file0

\* C25: an invocation killed from outside at any point before its state
\* write is complete leaves the state file as it was, so that the next
\* invocation without flags starts from the old last sync date.
C25_KillLeavesCursor ==
    cli.pc = "KILLED" =>
        /\ state_file = cli.state_file0
        /\ get_last_sync_date(state_file, Today).ok

\* C26: the command exits non-zero on every abort: an unparsable date, a
\* missing user id, a timeout, an HTTP error status, a transport error, or
\* any other exception; it exits with 0 only after the request returned a
\* result.
C26_ExitCodes ==
    /\ cli.pc = "ABORTED" =>
          /\ cli.exit_code # 0
          /\ cli.error \in PostFailures \cup {"invalid_date", "uncaught", "exception"}
    /\ (cli.pc \in {"DONE", "ABORTED", "KILLED"} /\ cli.exit_code = 0) =>
          /\ cli.pc = "DONE"
          /\ posted.sent
          /\ posted = [cli.request_data EXCEPT !.sent = TRUE]

\* the request went out and its answer was no JSON
C26_Witness ==
    /\ cli.pc = "ABORTED"
    /\ cli.error = "bad_json"
    /\ cli.exit_code = 1
    /\ posted.sent

\* the state file was rewritten by the invocation that has just completed
C28_Written ==
    /\ cli.pc = "DONE"
    /\ cli.result.has_runs_synced /\ cli.result.runs_synced > 0

\* C28 as stated: the stored last_sync_date never moves backward; every
\* write of the state file stores a date not earlier than the one stored
\* before it.
C28_NeverBackward ==
    (C28_Written /\ get_last_sync_date(cli.state_file0, Today).ok
                 /\ cli.state_file0.exists) =>
        DateLE(get_last_sync_date(cli.state_file0, Today).value,
               get_last_sync_date(state_file, Today).value)

\* C28: every write of the state file stores the until of the sync: the
\* until of the answer, or of the resolved window when the answer has none.
\* The stored date does not move backward when that until is today and the
\* date stored before is not in the future; record_sync_attempt stores today.
C28_StoresUntil ==
    /\ C28_Written =>
          /\ state_file.last_sync_date =
                 IF cli.result.has_until THEN cli.result.until
                 ELSE IsoFormat(cli.until_date)
          /\ (/\ cli.state_file0.exists
              /\ get_last_sync_date(cli.state_file0, Today).ok
              /\ DateLE(get_last_sync_date(cli.state_file0, Today).value, Today)
              /\ cli.until_date = Today) =>
                 DateLE(get_last_sync_date(cli.state_file0, Today).value,
                        get_last_sync_date(state_file, Today).value)
    /\ (/\ ssm_ret.op = "record_sync_attempt" /\ ssm_ret.success /\ ~ssm_ret.raised
        /\ ssm_ret.secret0.exists
        /\ FromIsoFormat(ssm_ret.secret0.last_sync_date).ok
        /\ DateLE(FromIsoFormat(ssm_ret.secret0.last_sync_date).value, ssm_ret.today)) =>
           DateLE(FromIsoFormat(ssm_ret.secret0.last_sync_date).value,
                  FromIsoFormat(secret.last_sync_date).value)

\* a sync of the year 2015 moved the stored date back from 2024-01-30
C28_Witness ==
    /\ C28_Written
    /\ cli.year = Int_(2015)
    /\ cli.state_file0.last_sync_date = IsoFormat(Date(2024, 1, 30))
    /\ state_file.last_sync_date = IsoFormat(Date(2015, 12, 31))

\* C29: the CLI writes its state file only when the answer reports
\* runs_synced > 0; a sync that completes with zero runs, or with no
\* runs_synced in the answer, leaves the state file as it was.
C29_ZeroRunsNoWrite ==
    cli.pc = "DONE" =>
        IF cli.result.has_runs_synced /\ cli.result.runs_synced > 0
        THEN state_file.runs_synced = cli.result.runs_synced
        ELSE state_file = cli.state_file0

\* a sync reported zero runs a day after a sync that had stored its date
C29_Witness ==
    /\ cli.pc = "DONE"
    /\ cli.result.has_runs_synced /\ cli.result.runs_synced = 0
    /\ cli.state_file0.exists
    /\ cli.state_file0.last_sync_timestamp < now
    /\ state_file = cli.state_file0

\* C27: get_valid_access_token reads the row twice; whatever saves and
\* deletes of other processes fall between the two reads, a token it returns
\* is one whose own stored expiry, as read with it, was null or more than
\* five minutes after the moment of that read.
C27_ReturnedTokenWasValid ==
    (gva.pc = "RETURNED" /\ gva.result # Null) =>
        /\ gva.result = gva.tokens.access_token
        /\ \/ gva.tokens.token_expires_at = NullTime
           \/ gva.read_at + buffer < gva.tokens.token_expires_at

\* C30: the writes of the TokenRepository touch active rows only: neither
\* save_user_tokens nor delete_tokens changes the token fields or updated_at
\* of a row whose is_active is false.
C30_InactiveRowUntouched ==
    (/\ tok_ret.op \in {"save_user_tokens", "delete_tokens"}
     /\ CallRow0.exists /\ ~CallRow0.is_active) =>
        CallRow = CallRow0

\* the rows that hold a list of splits for (activity_id, unit)
C23_RowsOf(activity_id, split_list, unit) ==
    { [activity_id |-> activity_id, split_unit |-> unit, split_number |-> i,
       cumulative_distance |-> split_list[i].distance,
       cumulative_seconds |-> split_list[i].seconds] : i \in 1..Len(split_list) }

\* a step changes the splits of no key but the one upsert_splits is called
\* for, and leaves exactly the rows of the payload under that key
C23_Step ==
    \A id \in ActivityIds, unit \in {"mi", "km"} :
        SplitRows(splits', id, unit) # SplitRows(splits, id, unit) =>
            /\ batch.pc = "store_splits"
            /\ id = CurrentActivity.activity_id
            /\ unit = "mi"
            /\ SplitRows(splits', id, unit) =
                   C23_RowsOf(id, batch.splits_data, "mi")

\* C23: upsert_splits(activity_id, splits, unit) is a full replace per
\* (activity_id, unit): after an upsert, also a second one with fewer splits,
\* the stored splits of that key are exactly the payload's, and the splits
\* of the other activities and of the other unit are unchanged.
C23_FullReplace == [][C23_Step]_vars

\* the second run stored the one split of activity 1 where the first run
\* had stored two; the per-kilometre splits are still there
C23_Witness ==
    /\ batch.sync = 2
    /\ batch.fates = <<"run_and_splits_stored">>
    /\ batch.activities[1] = 1
    /\ batch.replaced = 2
    /\ SplitRows(splits, 1, "mi") = C23_RowsOf(1, ProviderSplits(1, 2), "mi")
    /\ Cardinality(SplitRows(splits, 1, "mi")) = 1
    /\ SplitRows(splits, 1, "km") = KmRows

\* C24: in every state of the store the splits of each (activity_id, unit)
\* are numbered 1..N without gaps, and cumulative_distance and
\* cumulative_seconds strictly increase with split_number.
C24_SplitsIncrease ==
    \A id \in ActivityIds, unit \in {"mi", "km"} :
        LET rows == SplitRows(splits, id, unit)
        IN  /\ {r.split_number : r \in rows} = 1..Cardinality(rows)
            /\ \A r1, r2 \in rows :
                   r1.split_number < r2.split_number =>
                       /\ r1.cumulative_distance < r2.cumulative_distance
                       /\ r1.cumulative_seconds < r2.cumulative_seconds

\* C31: a TokenRepository operation called for (user_id, source_type)
\* leaves the rows of every other user and of every other source_type of
\* the same user as they were, and no operation adds a row, removes a row or
\* changes an is_active flag.
C31_OtherRowsUntouched ==
    tok_ret.op # "" =>
        \A k \in SourceKeys :
            /\ k # <<tok_ret.user_id, tok_ret.source_type>> =>
                   user_sources[k] = tok_ret.table0[k]
            /\ user_sources[k].exists = tok_ret.table0[k].exists
            /\ user_sources[k].is_active = tok_ret.table0[k].is_active

\* tokens were stored for one source while another user's row, or the
\* same user's other source holding tokens, stayed as it was
C31_Witness ==
    /\ tok_ret.op = "save_user_tokens"
    /\ CallRow # CallRow0
    /\ CallRow.access_token = "a3"
    /\ \E k \in SourceKeys :
           /\ k # <<tok_ret.user_id, tok_ret.source_type>>
           /\ k[1] # tok_ret.user_id \/ ~Falsy(user_sources[k].access_token)
           /\ user_sources[k].exists
           /\ user_sources[k] = tok_ret.table0[k]

\* the places of the loop body, in the order a pass visits them
C32_Rank(pc) ==
    IF pc = "parse" THEN 1 ELSE IF pc = "upsert_run" THEN 2
    ELSE IF pc = "fetch_splits" THEN 3 ELSE IF pc = "store_splits" THEN 4 ELSE 0

C32_InLoop == C32_Rank(batch.pc) > 0

\* inside the loop the activity list is fixed, a step either moves on within
\* the pass of the current activity or ends the pass, records its fate and
\* goes to the next activity (or to the summary): no activity is gone back to
C32_Step ==
    C32_InLoop =>
        /\ batch'.activities = batch.activities
        /\ \/ /\ batch'.i = batch.i
              /\ batch'.fates = batch.fates
              /\ C32_Rank(batch'.pc) > C32_Rank(batch.pc)
           \/ /\ batch'.i = batch.i + 1
              /\ Len(batch'.fates) = Len(batch.fates) + 1
              /\ batch'.pc = IF batch.i = Len(batch.activities)
                             THEN "complete" ELSE "parse"

\* the loop is at the activity after the ones whose pass has ended
C32_Position ==
    /\ C32_InLoop =>
          /\ batch.i \in 1..Len(batch.activities)
          /\ Len(batch.fates) = batch.i - 1
    /\ batch.pc = "complete" =>
          /\ Len(batch.fates) = Len(batch.activities)
          /\ batch.i = Len(batch.activities) + 1 \/ batch.activities = <<>>

\* C32: every run of the script terminates: whatever fails for whichever
\* activity, each activity of the list is attempted exactly once, in order,
\* none is tried again, and the script reaches "Sync Complete!".
C32_Terminates ==
    /\ [][C32_Step]_vars
    /\ []C32_Position
    /\ C32_InLoop ~> (batch.pc = "complete")

\* three activities, the first two failed at different places, all attempted
C32_Witness ==
    /\ batch.pc = "complete"
    /\ batch.activities = <<1, 2, 3>>
    /\ batch.fates = <<"skipped", "run_stored_then_failed", "run_and_splits_stored">>
    /\ batch.i = 4

====
